---- MODULE Spec2Model ----
(***************************************************************************)
(* Launa CRM (src/app.py): wage / bonus / tax calculation, the wage-period *)
(* rule, and the Wages worksheet with its read cache.                      *)
(*                                                                         *)
(* Units.  Python floats are modelled as exact fixed-point integers:       *)
(*   hours        in half-hours           (the forms step by 0.5)          *)
(*   sales        in kr                                                    *)
(*   wage, bonus, total  in 1/200 kr      (half-hour * rate in 1/100 kr)   *)
(*   tax figures  in 1/1000 kr, gross in kr                                *)
(* A text value (a date typed or stored as text) is a tuple of one-        *)
(* character strings, so that parsing and formatting are computed.         *)
(***************************************************************************)
EXTENDS Integers, Sequences, FiniteSets, TLC

VARIABLES store, cache, report, calls, dash, faulted, writes, arg, res

vars == <<store, cache, report, calls, dash, faulted, writes, arg, res>>

(***************************************************************************)
(* Configuration constants, src/app.py lines 35-45.                        *)
(***************************************************************************)
\* RATE_DAY = 2797.0 kr/h, in 1/100 kr per hour
RATE_DAY == 279700
\* RATE_EVE = 3768.47 kr/h, in 1/100 kr per hour
RATE_EVE == 376847
\* DEDUCTION_RATE = 636.0 kr/h, in 1/100 kr per hour
DEDUCTION_RATE == 63600
\* OFFSET_HOURS = 1.0 h, in half-hours
OFFSET_HOURS == 2
\* PENSION_RATE = 0.04, per mille
PENSION_RATE == 40
\* UNION_RATE = 0.007, per mille
UNION_RATE == 7
\* TAX_RATE_1 = 0.3145, per ten thousand
TAX_RATE_1 == 3145
\* PERSONAL_ALLOWANCE = 64926 kr
PERSONAL_ALLOWANCE == 64926
\* personal_allowance_usage=1.0, the default of calculate_net_salary, in tenths
DEFAULT_USAGE == 10
\* datetime.MAXYEAR: the last year a datetime can hold
MAXYEAR == 9999

MONTH_MAP ==
    <<"Jan", "Feb", "Mar", "Apr", "Maí", "Jún", "Júl", "Ágú", "Sep", "Okt", "Nóv", "Des">>

Max(a, b) == IF a >= b THEN a ELSE b

\* a sales figure in kr as an amount in 1/200 kr
Kr(x) == x * 200

(***************************************************************************)
(* Python values reaching get_wage_month: a str, a date, or anything else. *)
(***************************************************************************)
Str(cs) == [kind |-> "str", chars |-> cs]
Date(y, m, d) == [kind |-> "date", year |-> y, month |-> m, day |-> d]
None == [kind |-> "None"]
IntObj(n) == [kind |-> "int", val |-> n]

\* exceptions raised by the datetime library, as values
ValueError == [kind |-> "ValueError"]
OverflowError == [kind |-> "OverflowError"]

Digits == <<"0", "1", "2", "3", "4", "5", "6", "7", "8", "9">>

DigitChars == {"0", "1", "2", "3", "4", "5", "6", "7", "8", "9"}

IsDigit(c) == c \in DigitChars

DigitVal(c) ==
    CASE c = "0" -> 0 [] c = "1" -> 1 [] c = "2" -> 2 [] c = "3" -> 3 [] c = "4" -> 4
      [] c = "5" -> 5 [] c = "6" -> 6 [] c = "7" -> 7 [] c = "8" -> 8 [] c = "9" -> 9

IsLeap(y) == (y % 4 = 0 /\ y % 100 # 0) \/ y % 400 = 0

DaysInMonth(y, m) ==
    IF m = 2 THEN (IF IsLeap(y) THEN 29 ELSE 28)
    ELSE IF m \in {4, 6, 9, 11} THEN 30 ELSE 31

\* the field ending a "%Y-%m-%d" text from position p: one or two digits
\* (or, for the day, a blank and a digit); 0 when it is no such field
Field(cs, p, q, blankOk) ==
    IF q = p /\ IsDigit(cs[p]) THEN DigitVal(cs[p])
    ELSE IF q = p + 1 /\ IsDigit(cs[p]) /\ IsDigit(cs[q])
        THEN 10 * DigitVal(cs[p]) + DigitVal(cs[q])
    ELSE IF q = p + 1 /\ blankOk /\ cs[p] = " " /\ IsDigit(cs[q])
        THEN DigitVal(cs[q])
    ELSE 0

\* datetime.strptime(s, "%Y-%m-%d"): the date, or ValueError
strptime(cs) ==
    LET n == Len(cs)
        ok == /\ n >= 8
              /\ \A i \in 1..4 : IsDigit(cs[i])
              /\ cs[5] = "-"
              /\ \E k \in 7..8 : k < n /\ cs[k] = "-" /\ n - k \in 1..2
    IN  IF ~ok THEN ValueError
        ELSE LET q == CHOOSE k \in 7..8 : k < n /\ cs[k] = "-" /\ n - k \in 1..2
                 y == 1000 * DigitVal(cs[1]) + 100 * DigitVal(cs[2])
                        + 10 * DigitVal(cs[3]) + DigitVal(cs[4])
                 m == Field(cs, 6, q - 1, FALSE)
                 d == Field(cs, q + 1, n, TRUE)
             IN  IF /\ y >= 1
                    /\ m \in 1..12
                    /\ d >= 1
                    /\ d <= DaysInMonth(y, m)
                 THEN Date(y, m, d)
                 ELSE ValueError

\* date + timedelta(days=n): the date n days later, or OverflowError
RECURSIVE Normalize(_, _, _)
Normalize(y, m, d) ==
    IF y > MAXYEAR THEN OverflowError
    ELSE IF d <= DaysInMonth(y, m) THEN Date(y, m, d)
    ELSE IF m = 12 THEN Normalize(y + 1, 1, d - DaysInMonth(y, m))
    ELSE Normalize(y, m + 1, d - DaysInMonth(y, m))

AddDays(dt, n) == Normalize(dt.year, dt.month, dt.day + n)

\* f"{year}-{month:02d} ({MONTH_MAP[month]})"
Label(y, m) ==
    ToString(y) \o "-" \o (IF m < 10 THEN "0" ELSE "") \o ToString(m)
        \o " (" \o MONTH_MAP[m] \o ")"

\* str(date): the ISO text YYYY-MM-DD
Pad2(n) == <<Digits[(n \div 10) + 1], Digits[(n % 10) + 1]>>

StrOfDate(dt) ==
    <<Digits[(dt.year \div 1000) + 1], Digits[((dt.year \div 100) % 10) + 1]>>
        \o Pad2(dt.year % 100) \o <<"-">> \o Pad2(dt.month) \o <<"-">> \o Pad2(dt.day)

\* get_wage_month with the rollover step of 28 days instead of 32
get_wage_month_short(date_obj) ==
    LET dt == IF date_obj.kind = "str" THEN strptime(date_obj.chars) ELSE date_obj
    IN  IF dt.kind = "ValueError" THEN "Unknown"
        ELSE IF dt.kind # "date" THEN "AttributeError"
        ELSE IF dt.day >= 26
            THEN LET next_month == AddDays(Date(dt.year, dt.month, 1), 28)
                 IN  IF next_month.kind = "OverflowError" THEN "OverflowError"
                     ELSE Label(next_month.year, next_month.month)
        ELSE Label(dt.year, dt.month)

\* get_wage_month: the pay-period label of a date (text or date object)
get_wage_month(date_obj) ==
    LET dt == IF date_obj.kind = "str" THEN strptime(date_obj.chars) ELSE date_obj
    IN  IF dt.kind = "ValueError" THEN "Unknown"
        ELSE IF dt.kind # "date" THEN "AttributeError"
        ELSE IF dt.day >= 26
            THEN LET next_month == AddDays(Date(dt.year, dt.month, 1), 32)
                 IN  IF next_month.kind = "OverflowError" THEN "OverflowError"
                     ELSE Label(next_month.year, next_month.month)
        ELSE Label(dt.year, dt.month)

\* calculate_pay with the bonus not clamped at zero
calculate_pay_noclamp(day_h, eve_h, sales) ==
    LET wages == (day_h * RATE_DAY) + (eve_h * RATE_EVE)
        total_h == day_h + eve_h
        threshold == Max(0, (total_h - OFFSET_HOURS) * DEDUCTION_RATE)
        bonus == Kr(sales) - threshold
    IN  <<wages, bonus, wages + bonus>>

\* calculate_pay: <<wage, bonus, total>> in 1/200 kr
calculate_pay(day_h, eve_h, sales) ==
    LET wages == (day_h * RATE_DAY) + (eve_h * RATE_EVE)
        total_h == day_h + eve_h
        threshold == Max(0, (total_h - OFFSET_HOURS) * DEDUCTION_RATE)
        bonus == Max(0, Kr(sales) - threshold)
    IN  <<wages, bonus, wages + bonus>>

\* calculate_net_salary with the tax to pay not clamped at zero
calculate_net_salary_noclamp(gross_salary, usage) ==
    LET pension == gross_salary * PENSION_RATE
        union == gross_salary * UNION_RATE
        tax_base == gross_salary * 1000 - pension - union
        income_tax == (tax_base \div 10000) * TAX_RATE_1
        allowance == PERSONAL_ALLOWANCE * 100 * usage
        final_tax == income_tax - allowance
    IN  [gross |-> gross_salary * 1000, pension |-> pension, union |-> union,
         tax_base |-> tax_base, income_tax_calc |-> income_tax,
         allowance |-> allowance, final_tax |-> final_tax,
         net_salary |-> tax_base - final_tax]

\* calculate_net_salary: gross in kr (a multiple of 10000), usage in tenths;
\* every field of the breakdown in 1/1000 kr
calculate_net_salary(gross_salary, usage) ==
    LET pension == gross_salary * PENSION_RATE
        union == gross_salary * UNION_RATE
        tax_base == gross_salary * 1000 - pension - union
        income_tax == (tax_base \div 10000) * TAX_RATE_1
        allowance == PERSONAL_ALLOWANCE * 100 * usage
        final_tax == Max(0, income_tax - allowance)
    IN  [gross |-> gross_salary * 1000, pension |-> pension, union |-> union,
         tax_base |-> tax_base, income_tax_calc |-> income_tax,
         allowance |-> allowance, final_tax |-> final_tax,
         net_salary |-> tax_base - final_tax]

(***************************************************************************)
(* Bounds of the model.                                                    *)
(***************************************************************************)
\* rows the Wages worksheet may hold
MaxRows == 2
\* interactions that write to the worksheet (close-out, save, delete) in a run
MaxWrites == 3
\* longest shift part tried on the pay calculator, in half-hours
MaxHalfHours == 16
\* highest gross tried on the net-salary estimator, in steps of 10000 kr
MaxGrossSteps == 200

(***************************************************************************)
(* The Wages worksheet (rows below the header) and the read cache.         *)
(* A row is the tuple of its cells, columns A-I:                           *)
(*   StaffCode, Date, DayHrs, EveHrs, Sales, Wage, Bonus, Total, WageMonth *)
(***************************************************************************)
Staff == {"101", "202"}

NoCache == [present |-> FALSE, rows |-> <<>>]

Cached(rows) == [present |-> TRUE, rows |-> rows]

\* a worksheet row with nothing in it
BlankRow == <<"", <<>>, 0, 0, 0, 0, 0, 0, "">>

Idle == [done |-> FALSE]

\* st.error(...) after a store call raised: the message, and the sheet as it
\* was when the call began and when it gave up
Failure(msg, before, after) == [error |-> msg, before |-> before, after |-> after]

NoCalls == [pay |-> {}, month |-> {}]

NoDash == [op |-> "none", user |-> "", period |-> "", shown |-> FALSE,
           metrics |-> <<>>]

\* ws.update_cell(row_id, i+1, val) for the first k values of a row:
\* row_id counts from 2, below the header
UpdateCells(rows, row_id, values, k) ==
    LET idx == row_id - 1
        padded == [i \in 1..Max(Len(rows), idx) |->
                      IF i <= Len(rows) THEN rows[i] ELSE BlankRow]
    IN  [padded EXCEPT ![idx] = [c \in 1..9 |-> IF c <= k THEN values[c] ELSE @[c]]]

\* ws.delete_rows(row_id)
DeleteCells(rows, row_id) ==
    LET idx == row_id - 1
    IN  [i \in 1..(Len(rows) - 1) |-> IF i < idx THEN rows[i] ELSE rows[i + 1]]

\* get_data_with_index: every row with its _row_id
get_data_with_index(rows) ==
    [i \in 1..Len(rows) |-> [row_id |-> i + 1, cells |-> rows[i]]]

\* get_my_data("Wages"): the rows of the logged-in user
get_my_data(rows, user_code) ==
    SelectSeq(get_data_with_index(rows), LAMBDA r : r.cells[1] = user_code)

(***************************************************************************)
(* Inputs the forms and the editor are driven with.                        *)
(***************************************************************************)
\* st.date_input: always a date
FormDates == {Date(2024, 12, 31)}

\* st.number_input(step=0.5, min_value=0.0): half-hours, never negative
FormHours == {3}

\* st.number_input("Heildarsala", step=1000): no min_value, any integer
FormSales == {-1000, 5000}

\* the Date column of the editor is free text
EditDates == {StrOfDate(Date(2024, 2, 26)), <<"x">>}

\* the numeric columns of the editor accept any number
EditHours == {-1}

EditSales == {-1000}

\* the cell at which a store call raises: the call writes the cells before it.
\* The store raises in at most one call of a run (faulted).
FaultCells == 0..8

NoFault == [row |-> 0, cell |-> 9]

(***************************************************************************)
(* A read through @st.cache_data(ttl=0): the frame cached by an earlier    *)
(* read may be served, or the sheet fetched again; the frame read is then  *)
(* the one cached.                                                         *)
(***************************************************************************)
ReadResults == {store} \cup (IF cache.present THEN {cache.rows} ELSE {})

(***************************************************************************)
(* "Loka Vakt": the shift close-out form, src/app.py lines 305-320, with   *)
(* append_row, lines 96-107.                                               *)
(***************************************************************************)
EndShift(user_code, date_in, d_hrs, e_hrs, final_sales, fails) ==
    /\ Len(store) < MaxRows
    /\ writes < MaxWrites
    /\ writes' = writes + 1
    /\ fails => ~faulted
    /\ faulted' = (faulted \/ fails)
    /\ LET pay == calculate_pay(d_hrs, e_hrs, final_sales)
           mon == get_wage_month(date_in)
           row == <<user_code, StrOfDate(date_in), d_hrs, e_hrs, final_sales,
                    pay[1], pay[2], pay[3], mon>>
       IN  /\ calls' = [pay |-> {<<d_hrs, e_hrs, final_sales>>}, month |-> {date_in}]
           /\ IF fails
                 THEN /\ store' = store
                      /\ cache' = cache
                      /\ report' = {Failure("Save Error", store, store)}
                 ELSE /\ store' = Append(store, row)
                      /\ cache' = NoCache
                      /\ report' = {}
    /\ dash' = NoDash
    /\ UNCHANGED <<arg, res>>

(***************************************************************************)
(* delete_row, src/app.py lines 141-153.                                   *)
(***************************************************************************)
DeleteRow(row_id, fails) ==
    /\ row_id - 1 \in 1..Len(store)
    /\ writes < MaxWrites
    /\ writes' = writes + 1
    /\ fails => ~faulted
    /\ faulted' = (faulted \/ fails)
    /\ IF fails
          THEN /\ store' = store
               /\ cache' = cache
               /\ report' = {Failure("Delete Error", store, store)}
          ELSE /\ store' = DeleteCells(store, row_id)
               /\ cache' = NoCache
               /\ report' = {}
    /\ calls' = NoCalls
    /\ dash' = NoDash
    /\ UNCHANGED <<arg, res>>

(***************************************************************************)
(* The wages editor, src/app.py lines 384-456, with update_row, 109-139.   *)
(***************************************************************************)
\* the editable columns (Date, DayHrs, EveHrs, Sales) and what may be typed
\* into each
EditColumns == 2..5

EditValues(c) ==
    IF c = 2 THEN EditDates ELSE IF c = 5 THEN EditSales ELSE EditHours

\* the frame of st.data_editor after the user changed nothing (j = 0) or
\* typed v into column c of the j-th row shown
Edited(view, j, c, v) ==
    IF j = 0 THEN view ELSE [view EXCEPT ![j].cells[c] = v]

\* the save loop from row i on; acc carries the sheet and what happened
RECURSIVE SaveLoop(_, _, _, _, _)
SaveLoop(edited, i, user_code, fault, acc) ==
    IF i > Len(edited) THEN acc
    ELSE LET row == edited[i]
             d_hrs == row.cells[3]
             e_hrs == row.cells[4]
             sales == row.cells[5]
             date_val == row.cells[2]
             pay == calculate_pay(d_hrs, e_hrs, sales)
             w_mon == get_wage_month(Str(date_val))
             update_list == <<user_code, date_val, d_hrs, e_hrs, sales,
                              pay[1], pay[2], pay[3], w_mon>>
             k == IF fault.row = i THEN fault.cell ELSE 9
             called == [pay |-> acc.calls.pay \cup {<<d_hrs, e_hrs, sales>>},
                        month |-> acc.calls.month \cup {Str(date_val)}]
         IN  IF w_mon \in {"OverflowError", "AttributeError"}
                THEN [acc EXCEPT !.calls = called, !.raised = TRUE]
                ELSE LET after == UpdateCells(acc.rows, row.row_id, update_list, k)
                     IN  SaveLoop(edited, i + 1, user_code, fault,
                             [rows |-> after,
                              cleared |-> acc.cleared \/ k = 9,
                              errors |-> IF k < 9
                                            THEN acc.errors \cup
                                                 {Failure("Update Error", acc.rows, after)}
                                            ELSE acc.errors,
                              calls |-> called,
                              raised |-> FALSE])

SaveWages(user_code, data, fault) ==
    /\ writes < MaxWrites
    /\ writes' = writes + 1
    /\ fault # NoFault => ~faulted
    /\ LET df_w == get_my_data(data, user_code)
       IN  /\ df_w # <<>>
           /\ fault.row <= Len(df_w)
           /\ \E j \in 0..Len(df_w) :
              \E c \in (IF j = 0 THEN {2} ELSE EditColumns) :
              \E v \in (IF j = 0 THEN {<<>>} ELSE EditValues(c)) :
                LET edited_df == Edited(df_w, j, c, v)
                    r == SaveLoop(edited_df, 1, user_code, fault,
                             [rows |-> store, cleared |-> FALSE, errors |-> {},
                              calls |-> NoCalls, raised |-> FALSE])
                IN  /\ store' = r.rows
                    /\ cache' = IF r.cleared THEN NoCache ELSE Cached(data)
                    /\ report' = r.errors \cup
                          (IF r.raised THEN {Failure("OverflowError", r.rows, r.rows)}
                           ELSE {})
                    /\ calls' = r.calls
                    /\ faulted' = (faulted \/ r.errors # {})
    /\ dash' = NoDash
    /\ UNCHANGED <<arg, res>>

(***************************************************************************)
(* The dashboard, src/app.py lines 323-344.                                *)
(***************************************************************************)
RECURSIVE SumCol(_, _)
SumCol(rows, c) ==
    IF rows = <<>> THEN 0 ELSE Head(rows).cells[c] + SumCol(Tail(rows), c)

\* df_wages[df_wages['WageMonth'] == sel_m] keeping every row of the user
FilterAll(df_wages, sel_m) == df_wages

\* df_wages[df_wages['WageMonth'] == sel_m]
FilterMonth(df_wages, sel_m) ==
    SelectSeq(df_wages, LAMBDA r : r.cells[9] = sel_m)

\* the figures the dashboard shows for the selected month
Metrics(m_data) ==
    [tot_pay |-> SumCol(m_data, 8),
     tot_bonus |-> SumCol(m_data, 7),
     tot_hours |-> SumCol(m_data, 3) + SumCol(m_data, 4),
     count |-> Len(m_data)]

Dashboard(user_code, data) ==
    /\ LET df_wages == get_my_data(data, user_code)
           months == {df_wages[i].cells[9] : i \in 1..Len(df_wages)}
       IN  /\ cache' = Cached(data)
           /\ IF df_wages = <<>>
                 THEN dash' = [NoDash EXCEPT !.op = "dashboard", !.user = user_code]
                 ELSE \E sel_m \in months :
                        dash' = [op |-> "dashboard", user |-> user_code,
                                 period |-> sel_m,
                                 shown |-> sel_m # "",
                                 metrics |-> IF sel_m # ""
                                                THEN Metrics(FilterMonth(df_wages, sel_m))
                                                ELSE <<>>]
    /\ report' = {}
    /\ calls' = NoCalls
    /\ UNCHANGED <<store, faulted, writes, arg, res>>

(***************************************************************************)
(* The application: interactions on the Wages worksheet.                   *)
(***************************************************************************)
Init ==
    /\ store = <<>>
    /\ cache = NoCache
    /\ report = {}
    /\ calls = NoCalls
    /\ dash = NoDash
    /\ faulted = FALSE
    /\ writes = 0
    /\ arg = None
    /\ res = Idle

CloseShift ==
    \E u \in Staff, dt \in FormDates, dh \in FormHours, eh \in FormHours,
       s \in FormSales, fails \in BOOLEAN :
        EndShift(u, dt, dh, eh, s, fails)

SaveEditor ==
    \E u \in Staff, data \in ReadResults,
       fault \in {NoFault} \cup [row : 1..MaxRows, cell : FaultCells] :
        SaveWages(u, data, fault)

Delete == \E row_id \in 2..(MaxRows + 1), fails \in BOOLEAN : DeleteRow(row_id, fails)

ViewDashboard == \E u \in Staff, data \in ReadResults : Dashboard(u, data)

Next == CloseShift \/ SaveEditor \/ Delete \/ ViewDashboard

Spec == Init /\ [][Next]_vars

(***************************************************************************)
(* The pure functions on their own: the argument is drawn at the start and *)
(* the function applied to it.                                             *)
(***************************************************************************)
Quiet ==
    /\ store = <<>>
    /\ cache = NoCache
    /\ report = {}
    /\ calls = NoCalls
    /\ dash = NoDash
    /\ faulted = FALSE
    /\ writes = 0

Returned(v) == [done |-> TRUE, val |-> v]

\* get_wage_month ------------------------------------------------------------
PeriodYears == {2023, 2024, 2100, MAXYEAR}

PeriodDays == {1, 25, 26, 28, 29, 30, 31}

PeriodDates ==
    {Date(y, m, d) : <<y, m, d>> \in
        {t \in PeriodYears \X (1..12) \X PeriodDays : t[3] <= DaysInMonth(t[1], t[2])}}

\* texts that are no date
BadTexts ==
    { <<>>, <<"x">>, <<"N", "o", "n", "e">>,
      <<"2", "0", "2", "4", "-", "0", "2", "-", "3", "0">>,
      <<"2", "0", "2", "4", "-", "1", "3", "-", "0", "1">>,
      <<"2", "0", "2", "4", "-", "0", "0", "-", "1", "0">>,
      <<"2", "0", "2", "3", "-", "0", "2", "-", "2", "9">>,
      <<"0", "0", "0", "0", "-", "0", "1", "-", "0", "1">>,
      <<"2", "6", ".", "0", "2", ".", "2", "0", "2", "4">>,
      <<"2", "0", "2", "4", "/", "0", "2", "/", "2", "6">>,
      <<"2", "0", "2", "4", "-", "0", "2", "-", "2", "6", " ", "0", "0", ":", "0", "0">>,
      <<"2", "4", "-", "0", "2", "-", "2", "6">> }

\* dates written without padding, which strptime accepts
LooseTexts ==
    { <<"2", "0", "2", "4", "-", "2", "-", "6">>,
      <<"2", "0", "2", "4", "-", "1", "2", "-", "7">>,
      <<"2", "0", "2", "4", "-", "3", "-", "2", "6">>,
      <<"2", "0", "2", "4", "-", "0", "3", "-", " ", "6">> }

NotDates == {None, IntObj(20240226)} \cup {Str(t) : t \in BadTexts}

PeriodInputs ==
    PeriodDates \cup {Str(StrOfDate(dt)) : dt \in PeriodDates}
        \cup {Str(t) : t \in LooseTexts} \cup NotDates

InitPeriod == Quiet /\ arg \in PeriodInputs /\ res = Idle

CallGetWageMonth ==
    /\ ~res.done
    /\ res' = Returned(get_wage_month(arg))
    /\ UNCHANGED <<store, cache, report, calls, dash, faulted, writes, arg>>

SpecPeriod == InitPeriod /\ [][CallGetWageMonth]_vars

\* calculate_pay -------------------------------------------------------------
PaySales == {0, 1000, 4452, 4453, 150000}

InitPay ==
    /\ Quiet
    /\ arg \in [day_h : 0..MaxHalfHours, eve_h : 0..MaxHalfHours, sales : PaySales]
    /\ res = Idle

CallCalculatePay ==
    /\ ~res.done
    /\ res' = Returned(calculate_pay(arg.day_h, arg.eve_h, arg.sales))
    /\ UNCHANGED <<store, cache, report, calls, dash, faulted, writes, arg>>

SpecPay == InitPay /\ [][CallCalculatePay]_vars

\* calculate_net_salary ------------------------------------------------------
InitTax ==
    /\ Quiet
    /\ arg \in [gross : {10000 * k : k \in 0..MaxGrossSteps}, usage : {0, 5, DEFAULT_USAGE}]
    /\ res = Idle

CallNetSalary ==
    /\ ~res.done
    /\ res' = Returned(calculate_net_salary(arg.gross, arg.usage))
    /\ UNCHANGED <<store, cache, report, calls, dash, faulted, writes, arg>>

SpecTax == InitTax /\ [][CallNetSalary]_vars

(***************************************************************************)
(* Properties.                                                             *)
(***************************************************************************)
StoreErrors == {"Save Error", "Update Error", "Delete Error"}

\* a stored row whose derived cells follow from its own Date, hours and sales
Derived(row) ==
    LET pay == calculate_pay(row[3], row[4], row[5])
    IN  /\ row[6] = pay[1]
        /\ row[7] = pay[2]
        /\ row[8] = row[6] + row[7]
        /\ row[9] = get_wage_month(Str(row[2]))

\* C1: after any sequence of close-outs and editor saves, every stored Shift
\* row has total = wage + bonus, with wage and bonus those of calculate_pay on
\* the row's own hours and sales, and pay_period = get_wage_month(its date).
ShiftInvariant == \A i \in 1..Len(store) : Derived(store[i])

\* C2: a store call that raises (append, update or delete) is reported and
\* leaves every row as it was when the call began: no row is partly updated.
FailureLeavesRows ==
    \A f \in report : f.error \in StoreErrors => f.after = f.before

\* C3: on the close-out form and on the editor save, calculate_pay is never
\* called with a negative argument and get_wage_month never with a text that
\* is no date.
InputsValidated ==
    /\ \A c \in calls.pay : c[1] >= 0 /\ c[2] >= 0 /\ c[3] >= 0
    /\ \A d \in calls.month : d.kind = "str" => strptime(d.chars).kind = "date"

\* C4: an interaction that changes a cell or a row of the worksheet leaves
\* the read cache invalidated, so that no later read serves a frame cached
\* before the write.
CacheInvalidatedOnWrite == [][store' # store => cache' = NoCache]_vars

\* the label of the period a date belongs to, by month arithmetic
PeriodOf(dt) ==
    IF dt.day <= 25 THEN Label(dt.year, dt.month)
    ELSE IF dt.month = 12 THEN Label(dt.year + 1, 1)
    ELSE Label(dt.year, dt.month + 1)

\* the date a get_wage_month argument stands for: the date itself or its ISO text
Denotes(a, dt) == a = dt \/ a = Str(StrOfDate(dt))

\* C5: for every valid calendar date of every year, get_wage_month gives the
\* period of the date's own month when day <= 25 and of exactly the next
\* month when day >= 26, the year going up after December.
PeriodRule ==
    res.done => \A dt \in PeriodDates : Denotes(arg, dt) => res.val = PeriodOf(dt)

\* C5, the part that holds: the same rule for every date whose next month a
\* datetime can still hold, that is every date but 26-31 December of MAXYEAR.
PeriodRuleBelowMax ==
    res.done =>
        \A dt \in PeriodDates :
            (Denotes(arg, dt) /\ ~(dt.year = MAXYEAR /\ dt.month = 12 /\ dt.day >= 26))
                => res.val = PeriodOf(dt)

\* C6: for every input that is no parseable date (a text not in YYYY-MM-DD,
\* or a value that is neither text nor date) get_wage_month returns the
\* sentinel "Unknown" and does not raise.
SentinelForNotDates ==
    (res.done /\ arg \in NotDates) => res.val = "Unknown"

\* C6, the part that holds: every text that is no date yields the sentinel.
SentinelForBadTexts ==
    (res.done /\ arg \in {Str(t) : t \in BadTexts}) => res.val = "Unknown"

\* C7: for all hours and sales >= 0, wage = day*RATE_DAY + eve*RATE_EVE,
\* bonus = max(0, sales - max(0, (day+eve-OFFSET_HOURS)*DEDUCTION_RATE)) and
\* total = wage + bonus; so bonus >= 0, bonus = 0 when sales <= threshold,
\* compute(0,0,0) = (0,0,0) and compute(8,0,150000) = (22376, 145548, 167924).
\* Amounts in 1/200 kr, hours in half-hours: 2797.0 kr/h is 279700, and so on.
PayFormula ==
    res.done =>
        LET over == (arg.day_h + arg.eve_h - 2) * 63600
            threshold == IF over > 0 THEN over ELSE 0
            wage == res.val[1]
            bonus == res.val[2]
            total == res.val[3]
        IN  /\ wage = arg.day_h * 279700 + arg.eve_h * 376847
            /\ bonus >= 0
            /\ arg.sales * 200 <= threshold => bonus = 0
            /\ arg.sales * 200 > threshold => bonus = arg.sales * 200 - threshold
            /\ total = wage + bonus
            /\ (arg.day_h = 0 /\ arg.eve_h = 0 /\ arg.sales = 0) => res.val = <<0, 0, 0>>
            /\ (arg.day_h = 16 /\ arg.eve_h = 0 /\ arg.sales = 150000)
                  => res.val = <<22376 * 200, 145548 * 200, 167924 * 200>>

\* C7 witness: the 8-hour day shift with sales of 150000 has been computed.
PayScenarioComputed ==
    /\ res.done
    /\ arg = [day_h |-> 16, eve_h |-> 0, sales |-> 150000]
    /\ res.val[2] = 145548 * 200

\* C8 as claimed: with gross = 0 and the default allowance usage every field
\* of the breakdown is zero.
NetZeroAllFields ==
    (res.done /\ arg.gross = 0 /\ arg.usage = DEFAULT_USAGE)
        => \A k \in DOMAIN res.val : res.val[k] = 0

\* C8 amended: with gross = 0 and the default allowance usage every field is
\* zero except the allowance, which is PERSONAL_ALLOWANCE (in 1/1000 kr).
NetZeroButAllowance ==
    (res.done /\ arg.gross = 0 /\ arg.usage = DEFAULT_USAGE)
        => /\ DOMAIN res.val = {"gross", "pension", "union", "tax_base",
                                "income_tax_calc", "allowance", "final_tax",
                                "net_salary"}
           /\ \A k \in DOMAIN res.val \ {"allowance"} : res.val[k] = 0
           /\ res.val.allowance = 64926 * 1000

\* C8 witness: the estimate for gross = 0 with the default usage was made.
NetZeroEstimated ==
    res.done /\ arg.gross = 0 /\ arg.usage = DEFAULT_USAGE /\ res.val.net_salary = 0

Text_2024_02_26 == <<"2", "0", "2", "4", "-", "0", "2", "-", "2", "6">>

Text_2024_12_31 == <<"2", "0", "2", "4", "-", "1", "2", "-", "3", "1">>

\* C9 as claimed: 2024-02-26 resolves to "2024-03 (Mars)" and 2024-12-31 to
\* "2025-01".
PeriodExamplesAsClaimed ==
    res.done =>
        /\ arg \in {Date(2024, 2, 26), Str(Text_2024_02_26)} => res.val = "2024-03 (Mars)"
        /\ arg \in {Date(2024, 12, 31), Str(Text_2024_12_31)} => res.val = "2025-01"

\* C9 amended: 2024-02-26 resolves to "2024-03 (Mar)" and 2024-12-31 to
\* "2025-01 (Jan)".
PeriodExamples ==
    res.done =>
        /\ arg \in {Date(2024, 2, 26), Str(Text_2024_02_26)} => res.val = "2024-03 (Mar)"
        /\ arg \in {Date(2024, 12, 31), Str(Text_2024_12_31)} => res.val = "2025-01 (Jan)"

\* C9 witness: the text 2024-02-26 has been resolved to a March label.
PeriodExampleResolved ==
    res.done /\ arg = Str(Text_2024_02_26) /\ res.val = Label(2024, 3)

\* the sum of column c over the rows of data with index in ix
RECURSIVE SetSum(_, _, _)
SetSum(data, ix, c) ==
    IF ix = {} THEN 0
    ELSE LET i == CHOOSE j \in ix : TRUE
         IN  data[i][c] + SetSum(data, ix \ {i}, c)

\* rows of the frame the dashboard read that belong to its user
Mine == {i \in 1..Len(cache.rows) : cache.rows[i][1] = dash.user}

\* and, among them, those whose stored WageMonth is the selected period
InPeriod == {i \in Mine : cache.rows[i][9] = dash.period}

DashboardFigures ==
    dash.op = "dashboard" =>
        /\ cache.present
        /\ IF Mine = {} \/ dash.period = ""
              THEN ~dash.shown /\ dash.metrics = <<>>
              ELSE /\ dash.shown
                   /\ InPeriod # {}
                   /\ dash.metrics =
                        [tot_pay |-> SetSum(cache.rows, InPeriod, 8),
                         tot_bonus |-> SetSum(cache.rows, InPeriod, 7),
                         tot_hours |-> SetSum(cache.rows, InPeriod, 3)
                                          + SetSum(cache.rows, InPeriod, 4),
                         count |-> Cardinality(InPeriod)]

ShiftRow(user_code) ==
    LET date_in == Date(2024, 12, 31)
        pay == calculate_pay(3, 3, 5000)
    IN  <<user_code, StrOfDate(date_in), 3, 3, 5000, pay[1], pay[2], pay[3],
          get_wage_month(date_in)>>

NoFrames == [u \in Staff |-> <<>>]

InitSessions ==
    /\ store \in UNION {[1..n -> {ShiftRow(u) : u \in Staff}] : n \in 0..MaxRows}
    /\ cache = NoCache
    /\ report = {}
    /\ calls = NoCalls
    /\ dash = NoDash
    /\ faulted = FALSE
    /\ writes = 0
    /\ arg = NoFrames
    /\ res = Idle

\* df_w = get_my_data("Wages") and st.data_editor(df_w): the frame of the session
OpenEditor(user_code, data) ==
    /\ arg' = [arg EXCEPT ![user_code] = get_my_data(data, user_code)]
    /\ cache' = Cached(data)
    /\ UNCHANGED <<store, report, calls, dash, faulted, writes, res>>

\* the save loop of the session on the frame it read, with what the user typed
SaveFrame(user_code, j, c, v) ==
    /\ arg[user_code] # <<>>
    /\ writes < MaxWrites
    /\ writes' = writes + 1
    /\ LET edited_df == Edited(arg[user_code], j, c, v)
           r == SaveLoop(edited_df, 1, user_code, NoFault,
                    [rows |-> store, cleared |-> FALSE, errors |-> {},
                     calls |-> NoCalls, raised |-> FALSE])
       IN  /\ store' = r.rows
           /\ cache' = IF r.cleared THEN NoCache ELSE cache
           /\ report' = r.errors
           /\ calls' = r.calls
           /\ res' = Returned([user |-> user_code, before |-> store, after |-> r.rows])
    /\ arg' = [arg EXCEPT ![user_code] = <<>>]
    /\ dash' = NoDash
    /\ UNCHANGED faulted

SessionReads == \E u \in Staff, data \in ReadResults : OpenEditor(u, data)

SessionSaves ==
    \E u \in Staff :
    \E j \in 0..Len(arg[u]) :
    \E c \in (IF j = 0 THEN {2} ELSE EditColumns) :
    \E v \in (IF j = 0 THEN {<<>>} ELSE EditValues(c)) :
        SaveFrame(u, j, c, v)

SessionAppends ==
    \E u \in Staff, dt \in FormDates, dh \in FormHours, s \in FormSales :
        EndShift(u, dt, dh, dh, s, FALSE)

RowDeleted == \E row_id \in 2..(MaxRows + 1) : DeleteRow(row_id, FALSE)

NextSessions == SessionReads \/ SessionSaves \/ SessionAppends \/ RowDeleted

SpecSessions == InitSessions /\ [][NextSessions]_vars

\* C11: an editor save by employee E overwrites only rows E owns in the store
\* at the moment of the write: every row owned by another employee is, after
\* the save, exactly as it was before it, StaffCode included.
SaveKeepsOthersRows ==
    res.done =>
        \A i \in 1..Len(res.val.before) :
            res.val.before[i][1] # res.val.user
                => (i <= Len(res.val.after) /\ res.val.after[i] = res.val.before[i])

====
